---- MODULE Spec2Model ----
(***************************************************************************)
(* react-crud-hook: the useCrud hook (src/src/CrudHook/index.tsx) with the *)
(* two libraries it adapts.  The hook is modelled from its source.  The    *)
(* record wrapper and its store (resma) and the manager (lemon-curd) are   *)
(* not part of the source tree: they are modelled from what README.md and  *)
(* the test file say of them.  README.md keeps the record state in a store *)
(* ("it deletes the associated record state from store"), so a Record made *)
(* for a record whose state the store holds starts from that state.        *)
(***************************************************************************)
EXTENDS Integers, Sequences, FiniteSets, TLC

\* ------------------------------------------------------------- bounds
MaxRenders == 2     \* renders of the component after the first one
MaxSetters == 2     \* setter calls between two renders
MaxCalls == 1       \* save()/delete() calls in one run
MaxDelay == 1       \* largest unSubscribeDelay, in timer ticks

\* ------------------------------------------------------------ records
Values == {0, 1}
AttrNames == {"name", "age"}
NoId == ""

fakeRecord == [id |-> NoId, attributes |-> [a \in AttrNames |-> 0]]
fakeRecordWithId == [fakeRecord EXCEPT !.id = "1"]

promiseError == "Unable, Were gonna be in the Hudson."
extensions == [dispatch |-> "fakeDispatchFunction"]

\* ------------------------------------------------------------ options
StandardCallbacks ==
  {"beforeCreate", "onCreate", "beforeUpdate", "onUpdate",
   "beforeDelete", "onDelete", "onError"}
BeforeCallbacks == {"beforeCreate", "beforeUpdate", "beforeDelete"}
CustomKeys == {"include", "shouldResolve"}
\* What a before callback returns: a value, or a promise of one.
BeforeReturns ==
  {"truthy", "falsy", "promiseTruthy", "promiseFalsy", "promiseRecord"}

NoOptions == [k \in {} |-> 0]

\* An options object: the given callbacks (every before callback returning
\* ret) and the given custom keys (each with the value 1).
MakeOptions(callbacks, ret, custom) ==
  [k \in callbacks \cup custom |->
     IF k \in BeforeCallbacks THEN ret
     ELSE IF k \in StandardCallbacks THEN "callback"
     ELSE 1]

\* The options save() and delete() are called with: none, the callbacks of
\* fulfilment and error alone, or every callback with custom options.
OptionsInputs ==
  {NoOptions, MakeOptions(StandardCallbacks \ BeforeCallbacks, "truthy", {})}
    \cup {MakeOptions(StandardCallbacks, r, CustomKeys) : r \in BeforeReturns}

VARIABLES
  record,        \* the record passed into useCrud
  hookOptions,   \* the second argument the caller passes to useCrud
  mounted,       \* the component is mounted
  reference,     \* useState: the committed state value (an identity)
  scheduled,     \* the value of the last forceRender call
  nextId,        \* the identity of the next new object
  CrudRecord,    \* the Record instance of the current memo
  result,        \* the object the hook returned on the last render
  deps,          \* useMemo: the dependencies of the current memo
  renders,       \* renders after the first one
  ops,           \* the manager's operations, in call order
  store,         \* the record states the store holds (one per record)
  elapsed,       \* timer ticks since unmount
  unSubscribed,  \* calls of onUnSubscribe
  ideal,         \* history: the record with every setter call applied
  stale,         \* history: setter calls since the last render
  lastSet,       \* history: the last setter call
  calls          \* history: save() and delete() calls so far

vars ==
  <<record, hookOptions, mounted, reference, scheduled, nextId, CrudRecord,
    result, deps, renders, ops, store, elapsed, unSubscribed, ideal, stale,
    lastSet, calls>>

hookVars == <<reference, scheduled, nextId, CrudRecord, result, deps, renders>>
histVars == <<ideal, stale, lastSet>>
unmountVars == <<mounted, store, elapsed, unSubscribed>>

NoCall == [name |-> "", value |-> 0]

\* ------------------------------------------------- the record wrapper
\* The state the store holds for the record, or the record itself when the
\* store holds none.
RecordState(rec) == IF store = <<>> THEN rec ELSE store[1]

\* The store once a Record has been made for the record.
Subscribed(rec) == <<RecordState(rec)>>

\* new Record(record, listener): a wrapper around the record's state.
NewRecord(ref, rec, listener) ==
  [ref |-> ref, listener |-> listener,
   props |-> [_record |-> RecordState(rec)]]

\* What a Record calls its listener with: a new value, one the hook's state
\* has not had (the values it had are 0..reference).
NewState == reference + 1

\* The value scheduled as the hook's state once the Record has called its
\* listener.
Notified(rec) ==
  IF rec.listener = "forceRender" THEN NewState ELSE scheduled

\* setAttribute(name, value) on a record; the record given is not changed.
SetAttribute(rec, name, value) == [rec EXCEPT !.attributes[name] = value]

\* The record state after a setter call: the state as it is, updated.
UpdatedState(name, value) == SetAttribute(RecordState(record), name, value)

\* ------------------------------------------------------------ manager
BeforeName(kind) ==
  CASE kind = "create" -> "beforeCreate"
    [] kind = "update" -> "beforeUpdate"
    [] kind = "delete" -> "beforeDelete"

OnName(kind) ==
  CASE kind = "create" -> "onCreate"
    [] kind = "update" -> "onUpdate"
    [] kind = "delete" -> "onDelete"

CrudName(kind) ==
  CASE kind = "create" -> "createRecord"
    [] kind = "update" -> "updateRecord"
    [] kind = "delete" -> "deleteRecord"

\* The options that are not standard callbacks.
CustomOptions(options) ==
  [k \in DOMAIN options \ StandardCallbacks |-> options[k]]

\* A call of a callback or of a crud function: its name and two arguments
\* (onError has the error in front of them).
Event(name, arg, second) ==
  [name |-> name, arg |-> arg, second |-> second, error |-> ""]

ErrorEvent(error, arg, second) ==
  [name |-> "onError", arg |-> arg, second |-> second, error |-> error]

\* The record a before callback's promise replaces rec by.
ReplacedRecord(rec) ==
  [rec EXCEPT !.attributes["name"] = 1 - @]

\* The operation goes on: the crud function is invoked with the record and
\* the custom options.
Proceed(op, rec) ==
  [op EXCEPT !.pc = "pending", !.used = rec,
             !.events = Append(@, Event(CrudName(op.kind), rec,
                                        CustomOptions(op.options)))]

\* The start of an operation: the before callback, when given, is called
\* with the record and the extensions, and what it returns decides.
StartOperation(kind, rec, options) ==
  LET before == BeforeName(kind)
      given == before \in DOMAIN options
      ret == IF given THEN options[before] ELSE "truthy"
      op == [kind |-> kind, record |-> rec, options |-> options,
             used |-> rec, value |-> rec, pc |-> "before",
             events |-> IF given THEN <<Event(before, rec, extensions)>>
                        ELSE <<>>]
  IN  CASE ret = "truthy" -> Proceed(op, rec)
        [] ret = "falsy" -> [op EXCEPT !.pc = "aborted"]
        [] OTHER -> op

\* CrudManager.save: create without an id, update with one.
crudManager_save(rec, options) ==
  StartOperation(IF rec.id = NoId THEN "create" ELSE "update", rec, options)

\* CrudManager.delete
crudManager_delete(rec, options) == StartOperation("delete", rec, options)

\* The before callback's promise fulfils.
BeforeFulfilled(op) ==
  LET ret == op.options[BeforeName(op.kind)]
  IN  CASE ret = "promiseTruthy" -> Proceed(op, op.record)
        [] ret = "promiseRecord" -> Proceed(op, ReplacedRecord(op.record))
        [] OTHER -> [op EXCEPT !.pc = "aborted"]

\* The crud function's promise fulfils with value.
CrudFulfilled(op, value) ==
  LET on == OnName(op.kind)
  IN  [op EXCEPT !.pc = "done", !.value = value,
                 !.events = IF on \in DOMAIN op.options
                            THEN Append(@, Event(on, value, extensions))
                            ELSE @]

\* The crud function's promise rejects.
CrudRejected(op) ==
  [op EXCEPT !.pc = "failed",
             !.events = IF "onError" \in DOMAIN op.options
                        THEN Append(@, ErrorEvent(promiseError, op.record,
                                                  extensions))
                        ELSE @]

\* The operation has come to its end.
Settled(op) == op.pc \in {"done", "failed", "aborted"}

\* What the crud function fulfils with: its first argument, or its second.
FulfilValues(op) == {op.used, CustomOptions(op.options)}

\* --------------------------------------------------------------- hook
assign(ob, o) ==
  [ob EXCEPT !.props =
     [k \in DOMAIN ob.props \cup DOMAIN o.props |->
        IF k \in DOMAIN o.props THEN o.props[k] ELSE ob.props[k]]]

EmptyObject(ref) == [ref |-> ref, props |-> [k \in {} |-> 0]]

\* Mutant of Deps: the state value is left out of the dependencies.
DepsWithoutReference(ref, rec) == <<rec>>

\* The dependencies of useMemo.
Deps(ref, rec) == <<ref, rec>>

\* Mutant of HookRecord: the Record is made without its listener.
HookRecordWithoutListener(ref) == NewRecord(ref, record, "none")

\* The Record the memo makes: new Record(record, forceRender).
HookRecord(ref) == NewRecord(ref, record, "forceRender")

\* Mutant of MemoValue: the properties are defined on the object returned
\* before, not on a new one.
MemoValueOfOldObject(ref, o) == assign(result, o)

\* What the memo returns: a new object with the properties of the Record.
MemoValue(ref, o) == assign(EmptyObject(ref), o)

\* Mutants of CrudRecord_save: it calls the manager's delete; it hands over
\* the record passed into the hook; it hands over the _record of the object
\* returned, a copy made at the render; it leaves the options out.
CrudRecord_saveCallsDelete(options) ==
  crudManager_delete(CrudRecord.props._record, options)

CrudRecord_savePassesProp(options) == crudManager_save(record, options)

CrudRecord_savePassesSnapshot(options) ==
  crudManager_save(result.props._record, options)

CrudRecord_saveDropsOptions(options) ==
  crudManager_save(CrudRecord.props._record, NoOptions)

\* Mutants of CrudRecord_delete: it hands over the record passed into the
\* hook; it leaves the options out.
CrudRecord_deletePassesProp(options) == crudManager_delete(record, options)

CrudRecord_deleteDropsOptions(options) ==
  crudManager_delete(CrudRecord.props._record, NoOptions)

\* CrudRecord.save and CrudRecord.delete: what they hand to the manager.
CrudRecord_save(options) == crudManager_save(CrudRecord.props._record, options)

CrudRecord_delete(options) ==
  crudManager_delete(CrudRecord.props._record, options)

\* The history of a call, kept beside the manager's operation. The caller
\* starts an operation when the one before has come to its end.
Call(via, options) ==
  [via |-> via, givenOptions |-> options,
   hookRecord |-> CrudRecord.props._record, expected |-> ideal,
   renders |-> renders]

\* The state after the first render of useCrud(record, options).
Mounted(options) ==
  /\ record \in {fakeRecord, fakeRecordWithId}
  /\ hookOptions = options
  /\ mounted = TRUE
  /\ reference = 0
  /\ scheduled = 0
  /\ nextId = 3
  /\ store = <<record>>
  /\ CrudRecord = HookRecord(1)
  /\ result = assign(EmptyObject(2), CrudRecord)
  /\ deps = Deps(0, record)
  /\ renders = 0
  /\ ops = <<>>
  /\ elapsed = 0
  /\ unSubscribed = 0
  /\ ideal = record
  /\ stale = 0
  /\ lastSet = NoCall
  /\ calls = 0

\* useCrud(record): no options.
Init == Mounted([unSubscribeDelay |-> 0, onUnSubscribe |-> FALSE])

\* useCrud(record, options), with and without a delay.
InitTimed ==
  \E delay \in {0, MaxDelay} :
    Mounted([unSubscribeDelay |-> delay, onUnSubscribe |-> TRUE])

\* A setter of the returned record: the record state changes and the
\* listener (forceRender) is called with a new value.
Setter(name, value) ==
  /\ mounted
  /\ stale < MaxSetters
  /\ store' = <<UpdatedState(name, value)>>
  /\ CrudRecord' = [CrudRecord EXCEPT !.props._record =
                      UpdatedState(name, value)]
  /\ scheduled' = Notified(CrudRecord)
  /\ ideal' = SetAttribute(ideal, name, value)
  /\ stale' = stale + 1
  /\ lastSet' = [name |-> name, value |-> value]
  /\ UNCHANGED <<record, hookOptions, reference, nextId, result, deps,
                 renders, ops, calls, mounted, elapsed, unSubscribed>>

\* A render of the component: useState yields the scheduled value and
\* useMemo computes a new record when a dependency has changed.
Render ==
  /\ mounted
  /\ renders < MaxRenders
  /\ reference' = scheduled
  /\ renders' = renders + 1
  /\ stale' = 0
  /\ IF Deps(scheduled, record) # deps
     THEN /\ CrudRecord' = HookRecord(nextId)
          /\ result' = MemoValue(nextId + 1, HookRecord(nextId))
          /\ store' = Subscribed(record)
          /\ nextId' = nextId + 2
          /\ deps' = Deps(scheduled, record)
     ELSE UNCHANGED <<CrudRecord, result, store, nextId, deps>>
  /\ UNCHANGED <<record, hookOptions, scheduled, ops, ideal, lastSet, calls,
                 mounted, elapsed, unSubscribed>>

Save(options) ==
  /\ calls < MaxCalls
  /\ \A i \in DOMAIN ops : Settled(ops[i].op)
  /\ ops' = <<[op |-> CrudRecord_save(options), call |-> Call("save", options)]>>
  /\ calls' = calls + 1
  /\ UNCHANGED <<record, hookOptions>>
  /\ UNCHANGED <<hookVars, histVars, unmountVars>>

Delete(options) ==
  /\ calls < MaxCalls
  /\ \A i \in DOMAIN ops : Settled(ops[i].op)
  /\ ops' = <<[op |-> CrudRecord_delete(options), call |-> Call("delete", options)]>>
  /\ calls' = calls + 1
  /\ UNCHANGED <<record, hookOptions>>
  /\ UNCHANGED <<hookVars, histVars, unmountVars>>

BeforeSettles(i) ==
  /\ ops[i].op.pc = "before"
  /\ ops' = [ops EXCEPT ![i].op = BeforeFulfilled(@)]
  /\ UNCHANGED <<record, hookOptions, calls>>
  /\ UNCHANGED <<hookVars, histVars, unmountVars>>

CrudFulfils(i, value) ==
  /\ ops[i].op.pc = "pending"
  /\ ops' = [ops EXCEPT ![i].op = CrudFulfilled(@, value)]
  /\ UNCHANGED <<record, hookOptions, calls>>
  /\ UNCHANGED <<hookVars, histVars, unmountVars>>

CrudRejects(i) ==
  /\ ops[i].op.pc = "pending"
  /\ ops' = [ops EXCEPT ![i].op = CrudRejected(@)]
  /\ UNCHANGED <<record, hookOptions, calls>>
  /\ UNCHANGED <<hookVars, histVars, unmountVars>>

\* The component unmounts: the hook has registered no effect, so the store
\* keeps the record state and no callback is called.
Unmount ==
  /\ mounted
  /\ mounted' = FALSE
  /\ UNCHANGED <<record, hookOptions, ops, calls, store, elapsed, unSubscribed>>
  /\ UNCHANGED <<hookVars, histVars>>

\* Time passes after the unmount; no timer of the hook is pending.
Tick ==
  /\ ~mounted
  /\ elapsed < MaxDelay
  /\ elapsed' = elapsed + 1
  /\ UNCHANGED <<record, hookOptions, ops, calls, mounted, store, unSubscribed>>
  /\ UNCHANGED <<hookVars, histVars>>

Next ==
  \/ \E name \in AttrNames, value \in Values : Setter(name, value)
  \/ Render
  \/ \E options \in OptionsInputs : Save(options)
  \/ \E options \in OptionsInputs : Delete(options)
  \/ \E i \in DOMAIN ops : BeforeSettles(i)
  \/ \E i \in DOMAIN ops : \E value \in FulfilValues(ops[i].op) :
       CrudFulfils(i, value)
  \/ \E i \in DOMAIN ops : CrudRejects(i)
  \/ Unmount

Spec == Init /\ [][Next]_vars

\* The same with the options of the unmount and the time after it.
NextTimed == Next \/ Tick

SpecTimed == InitTimed /\ [][NextTimed]_vars

\* ------------------------------------------------------------- claims
EventNames(op) == {op.events[j].name : j \in DOMAIN op.events}

CountEvents(op, name) ==
  Cardinality({j \in DOMAIN op.events : op.events[j].name = name})

CreateNames == {"beforeCreate", "createRecord", "onCreate", "onError"}
UpdateNames == {"beforeUpdate", "updateRecord", "onUpdate", "onError"}
Proceeded(op) == op.pc \in {"pending", "done", "failed"}

\* C1: save() chooses by the id of the hook's record: without an id only
\* the create callbacks and createRecord are called, with an id only the
\* update callbacks and updateRecord; save() never calls deleteRecord.
C1_SaveChoosesById ==
  \A i \in DOMAIN ops :
    ops[i].call.via = "save" =>
      LET op == ops[i].op
          names == EventNames(op)
          new == ops[i].call.hookRecord.id = NoId
      IN  /\ "deleteRecord" \notin names
          /\ new => names \subseteq CreateNames
          /\ ~new => names \subseteq UpdateNames
          /\ Proceeded(op) =>
               (IF new THEN "createRecord" ELSE "updateRecord") \in names

C1_Witness ==
  \E i \in DOMAIN ops :
    /\ ops[i].call.via = "save"
    /\ ops[i].call.hookRecord.id # NoId
    /\ ops[i].op.pc = "done"
    /\ {"beforeUpdate", "updateRecord", "onUpdate"}
         \subseteq EventNames(ops[i].op)

\* C2: the before callback is called first, with the hook's record and the
\* extensions; then the crud function; the on callback is called only after
\* the crud promise has fulfilled, once, last, with the fulfilled value and
\* the extensions.
C2_CallbackOrder ==
  \A i \in DOMAIN ops :
    LET op == ops[i].op
        e == op.events
        given == DOMAIN ops[i].call.givenOptions
        before == BeforeName(op.kind)
        on == OnName(op.kind)
        crud == CrudName(op.kind)
    IN  /\ \A j \in DOMAIN e :
             e[j].name = before =>
               /\ j = 1
               /\ e[j].arg = ops[i].call.hookRecord
               /\ e[j].second = extensions
        /\ \A j \in DOMAIN e :
             e[j].name = on =>
               /\ op.pc = "done"
               /\ j = Len(e)
               /\ j > 1
               /\ e[j - 1].name = crud
               /\ e[j].arg = op.value
               /\ e[j].second = extensions
        /\ op.pc = "done" =>
             /\ on \in given => CountEvents(op, on) = 1
             /\ CountEvents(op, crud) = 1
             /\ before \in given => (e[1].name = before /\ e[2].name = crud)

C2_Witness ==
  \E i \in DOMAIN ops :
    /\ ops[i].op.pc = "done"
    /\ ops[i].call.hookRecord # record
    /\ Len(ops[i].op.events) = 3
    /\ ops[i].op.events[3].name = OnName(ops[i].op.kind)

\* C3: when the crud promise rejects, onError is called with the error, the
\* record the operation was started with and the extensions, and the on
\* callback of the operation is not called.
C3_OnErrorOnReject ==
  \A i \in DOMAIN ops :
    LET op == ops[i].op
        e == op.events
    IN  /\ op.pc = "failed" =>
             /\ OnName(op.kind) \notin EventNames(op)
             /\ "onError" \in DOMAIN ops[i].call.givenOptions =>
                  /\ e # <<>>
                  /\ e[Len(e)] = ErrorEvent(promiseError,
                                            ops[i].call.hookRecord, extensions)
                  /\ CountEvents(op, "onError") = 1
        /\ "onError" \in EventNames(op) => op.pc = "failed"

C3_Witness ==
  \E i \in DOMAIN ops :
    /\ ops[i].op.pc = "failed"
    /\ ops[i].call.via = "delete"
    /\ ops[i].call.hookRecord # record
    /\ "onError" \in EventNames(ops[i].op)

\* C4: a before callback gates its operation: a truthy value (directly or
\* through a promise) lets the crud function be invoked, a falsy one aborts
\* with no crud function, on callback or onError called; a record returned
\* through the promise is the one the crud function is invoked with.
C4_BeforeGates ==
  \A i \in DOMAIN ops :
    LET op == ops[i].op
        e == op.events
        options == ops[i].call.givenOptions
        before == BeforeName(op.kind)
        crud == CrudName(op.kind)
        ret == options[before]
        CrudWith(rec) ==
          /\ Proceeded(op)
          /\ \E j \in DOMAIN e : e[j].name = crud /\ e[j].arg = rec
          /\ CountEvents(op, crud) = 1
    IN  before \in DOMAIN options =>
          /\ ret = "truthy" => CrudWith(ops[i].call.hookRecord)
          /\ ret = "falsy" => (op.pc = "aborted" /\ EventNames(op) = {before})
          /\ ret = "promiseFalsy" =>
               (op.pc \in {"before", "aborted"} /\ EventNames(op) = {before})
          /\ ret = "promiseTruthy" =>
               \/ op.pc = "before" /\ EventNames(op) = {before}
               \/ CrudWith(ops[i].call.hookRecord)
          /\ ret = "promiseRecord" =>
               \/ op.pc = "before" /\ EventNames(op) = {before}
               \/ CrudWith(ReplacedRecord(ops[i].call.hookRecord))

C4_Witness ==
  \E i \in DOMAIN ops :
    /\ BeforeName(ops[i].op.kind) \in DOMAIN ops[i].call.givenOptions
    /\ ops[i].call.givenOptions[BeforeName(ops[i].op.kind)] = "promiseFalsy"
    /\ ops[i].op.pc = "aborted"

\* C5: the crud function's second argument holds exactly the custom option
\* keys with their values, and none of the standard callbacks.
C5_CustomOptionsSplit ==
  \A i \in DOMAIN ops :
    LET op == ops[i].op
        e == op.events
        options == ops[i].call.givenOptions
    IN  \A j \in DOMAIN e :
          e[j].name = CrudName(op.kind) =>
            /\ DOMAIN e[j].second = DOMAIN options \ StandardCallbacks
            /\ DOMAIN e[j].second \cap StandardCallbacks = {}
            /\ \A k \in DOMAIN e[j].second : e[j].second[k] = options[k]

C5_Witness ==
  \E i \in DOMAIN ops :
    \E j \in DOMAIN ops[i].op.events :
      /\ ops[i].op.events[j].name = CrudName(ops[i].op.kind)
      /\ DOMAIN ops[i].op.events[j].second = CustomKeys
      /\ StandardCallbacks \subseteq DOMAIN ops[i].call.givenOptions

C7_NewReference ==
  [][(renders' = renders + 1 /\ stale > 0) => result'.ref # result.ref]_vars

C7_Witness ==
  /\ renders > 0
  /\ lastSet # NoCall
  /\ stale = 0
  /\ nextId > 3
  /\ result.ref = nextId - 1

\* C8: after the unmount the record state stays in the store until the
\* unSubscribeDelay has elapsed; then it is removed and onUnSubscribe is
\* called, once, with the store holding no entry.
C8_UnSubscribeAfterDelay ==
  /\ (~mounted /\ elapsed < hookOptions.unSubscribeDelay) =>
       (Len(store) = 1 /\ unSubscribed = 0)
  /\ (~mounted /\ elapsed >= hookOptions.unSubscribeDelay) =>
       (Len(store) = 0 /\ (hookOptions.onUnSubscribe => unSubscribed = 1))

====
